---- MODULE Spec2Model ----
(***************************************************************************)
(* State machine of controller.py: the polling loop App.run, the decision  *)
(* procedure App._update, and the Printer and Timer objects it drives.     *)
(* The run loop is one sequential process whose position is pc; the        *)
(* SIGALRM handler installed by Timer.__init__ is the only asynchronous    *)
(* step and may run between any two statements of the loop.                *)
(***************************************************************************)
EXTENDS Integers, Sequences, FiniteSets, TLC

\* ---- bounds of the model ----
MaxTicks == 5      \* number of loop iterations explored
MaxJobs == 2       \* len(getJobs()) ranges over 0..MaxJobs
MaxCalls == 4      \* length of a call sequence on a Printer object alone

\* ---- Printer and Timer enums (class attributes) ----
OFF == 1
ON == 2
READY == 3

FIRED == 1
SET == 2
UNSET == 3

PrinterStates == {OFF, ON, READY}
TimerStates == {FIRED, SET, UNSET}

VARIABLES
    pc,             \* position of the run loop
    ra,             \* where Timer.unset returns to
    pstate,         \* Printer._state
    tstate,         \* Timer.state
    alarm,          \* a signal.alarm deadline is pending in the OS
    qDisabled,      \* CUPS queue is stopped (printer-state = 5)
    job_count,      \* local of run / argument of _update
    printer_state,  \* local of run / argument of _update
    \* ---- observation (history) variables ----
    ticks,          \* loop iterations started
    trace,          \* collaborator commands issued in the current iteration
    preT, preP,     \* Timer.state and Printer._state when the iteration began
    preQ,           \* qDisabled when the iteration began
    t0,             \* Timer.state when _update was entered
    sig,            \* alarm_handler ran since the iteration began / _update was entered
    found,          \* usb.core.find detected the printer in this iteration
    outcome,        \* how the last finished iteration ended
    failAt,         \* the call that raised in the current / last iteration
    onPulses,       \* pulses given by Printer.on
    offPulses,      \* pulses given by Printer.off
    arms,           \* calls of Timer.set
    startP,         \* Printer._state after construction
    allPos,         \* every iteration so far observed job_count > 0
    posSinceArm,    \* an iteration observed job_count > 0 since Timer.set
    carry,          \* previous iteration: getJobs raised while the timer was FIRED
    faults,         \* a call raised in an earlier iteration
    firstFound,     \* usb.core.find detected the printer in the first iteration
    dl,             \* fate of the deadline of each signal.alarm(timeout) call
    lastQ,          \* last enablePrinter / disablePrinter call made
    calls           \* calls made on a Printer object alone

vars == <<pc, ra, pstate, tstate, alarm, qDisabled, job_count, printer_state,
          ticks, trace, preT, preP, preQ, t0, sig, found, outcome, failAt,
          onPulses, offPulses, arms, startP, allPos, posSinceArm, carry,
          faults, firstFound, dl, lastQ, calls>>

prog == <<pstate, tstate, alarm, qDisabled>>
locals == <<job_count, printer_state>>
counters == <<onPulses, offPulses, arms>>
tickHist == <<ticks, preT, preP, preQ, found, carry>>
runHist == <<startP, allPos, posSinceArm>>
sleepHist == <<faults, firstFound>>

\* ---- Printer methods as functions of Printer._state ----

\* mutant: the result of usb.core.find is ignored
Printer_state_m(s, f) == s

\* Printer.state: READY when the USB device is found, else the tracked state
Printer_state(s, f) == IF f THEN READY ELSE s

\* mutant: Printer.on without its test of the state
Printer_on_m(s) == [state |-> ON, pulses |-> 1]

\* mutant: Printer.on marks the printer READY after the pulse
Printer_on_ready(s) ==
    IF s = OFF THEN [state |-> READY, pulses |-> 1]
               ELSE [state |-> s, pulses |-> 0]

\* Printer.on: one pulse and ON, only from OFF
Printer_on(s) ==
    IF s = OFF THEN [state |-> ON, pulses |-> 1]
               ELSE [state |-> s, pulses |-> 0]

\* mutant: Printer.off pulses only when the state is ON
Printer_off_m(s) ==
    IF s = ON THEN [state |-> OFF, pulses |-> 1]
              ELSE [state |-> OFF, pulses |-> 0]

\* Printer.off: one pulse and OFF, unless already OFF
Printer_off(s) ==
    IF s # OFF THEN [state |-> OFF, pulses |-> 1]
               ELSE [state |-> s, pulses |-> 0]

\* ---- the one alarm slot of the process (signal.alarm) ----

\* the pending deadline, if there is one, ends as st
Settle(st) == [i \in DOMAIN dl |-> IF dl[i] = "pending" THEN st ELSE dl[i]]

\* ---- helpers for the control flow of run ----

\* the try block finished normally: back to time.sleep
Return(o) ==
    /\ pc' = "sleep"
    /\ ra' = "none"
    /\ outcome' = o

\* an exception of a class run catches (IPPError, AttributeError, RuntimeError)
Caught(at) ==
    /\ pc' = "log"
    /\ ra' = "none"
    /\ failAt' = at
    /\ UNCHANGED outcome

\* an exception of any other class: it propagates out of run, the process ends
Uncaught(at) ==
    /\ pc' = "dead"
    /\ ra' = "none"
    /\ failAt' = at
    /\ outcome' = "died"

\* ---- construction: App.__init__, Printer.__init__, Timer.__init__ ----

InitHist ==
    /\ ticks = 0 /\ trace = <<>> /\ sig = FALSE /\ found = FALSE
    /\ outcome = "none" /\ failAt = "none"
    /\ onPulses = 0 /\ offPulses = 0 /\ arms = 0
    /\ allPos = TRUE /\ posSinceArm = FALSE /\ carry = FALSE
    /\ faults = FALSE /\ firstFound = FALSE
    /\ dl = (IF alarm THEN <<"pending">> ELSE <<>>)
    /\ lastQ = (IF pstate = OFF /\ qDisabled THEN "disable" ELSE "none")
    /\ calls = <<>>

Init ==
    /\ pc = "sleep" /\ ra = "none"
    /\ \E f \in BOOLEAN :
         /\ pstate = Printer_state(OFF, f)
         /\ qDisabled \in (IF pstate = OFF THEN {TRUE} ELSE BOOLEAN)
    /\ tstate = UNSET /\ alarm = FALSE
    /\ job_count = 0 /\ printer_state = pstate
    /\ preT = tstate /\ preP = pstate /\ preQ = qDisabled
    /\ t0 = tstate /\ startP = pstate
    /\ InitHist

\* ---- App.run ----

\* time.sleep(poll_interval_s): a new iteration begins
SleepTo(n) ==
    /\ pc = "sleep"
    /\ pc' = "svc"
    /\ ticks' = n
    /\ trace' = <<>>
    /\ preT' = tstate /\ preP' = pstate /\ t0' = tstate
    /\ sig' = FALSE /\ found' = FALSE
    /\ failAt' = "none"
    /\ preQ' = qDisabled
    /\ carry' = (outcome = "failed" /\ failAt = "getJobs" /\ preT = FIRED)
    /\ faults' = (faults \/ failAt # "none")
    /\ firstFound' = IF ticks = 1 THEN found ELSE firstFound
    /\ UNCHANGED <<ra, prog, locals, outcome, counters, runHist, calls, dl, lastQ>>

\* the loop, explored for MaxTicks iterations
Sleep == ticks < MaxTicks /\ SleepTo(ticks + 1)

\* the loop running for ever: iterations past MaxTicks are no longer counted
SleepOn == SleepTo(IF ticks < MaxTicks THEN ticks + 1 ELSE ticks)

\* mutant: an inactive service is reported like a failed query
CheckService_m ==
    /\ pc = "svc"
    /\ \E active \in BOOLEAN :
         IF active
         THEN /\ pc' = "getJobs"
              /\ UNCHANGED <<ra, outcome, allPos, failAt>>
         ELSE /\ Caught("svc")
              /\ allPos' = FALSE
    /\ UNCHANGED <<prog, locals, trace, t0, sig, counters, tickHist,
                   startP, posSinceArm, calls, sleepHist, dl, lastQ>>

\* if self.cups_svc.Unit.ActiveState == b'active'
CheckService ==
    /\ pc = "svc"
    /\ \E active \in BOOLEAN :
         IF active
         THEN /\ pc' = "getJobs"
              /\ UNCHANGED <<ra, outcome, allPos>>
         ELSE /\ Return("skipped")
              /\ allPos' = FALSE
    /\ UNCHANGED <<prog, locals, trace, t0, sig, failAt, counters, tickHist,
                   startP, posSinceArm, calls, sleepHist, dl, lastQ>>

\* mutant: a failing getJobs is taken as "no jobs" and the iteration goes on
GetJobs_m ==
    /\ pc = "getJobs"
    /\ \/ \E n \in 0..MaxJobs :
            /\ job_count' = n
            /\ pc' = "state"
            /\ allPos' = (allPos /\ n > 0)
            /\ posSinceArm' = (posSinceArm \/ n > 0)
            /\ UNCHANGED <<ra, outcome, failAt>>
       \/ /\ job_count' = 0
          /\ pc' = "state"
          /\ failAt' = "getJobs"
          /\ allPos' = FALSE
          /\ UNCHANGED <<ra, outcome, posSinceArm>>
    /\ UNCHANGED <<prog, printer_state, trace, t0, sig, counters, tickHist,
                   startP, calls, sleepHist, dl, lastQ>>

\* job_count = len(self.cupsc.getJobs())
GetJobs ==
    /\ pc = "getJobs"
    /\ \/ \E n \in 0..MaxJobs :
            /\ job_count' = n
            /\ pc' = "state"
            /\ allPos' = (allPos /\ n > 0)
            /\ posSinceArm' = (posSinceArm \/ n > 0)
            /\ UNCHANGED <<ra, outcome, failAt>>
       \/ /\ Caught("getJobs")
          /\ allPos' = FALSE
          /\ UNCHANGED <<job_count, posSinceArm>>
    /\ UNCHANGED <<prog, printer_state, trace, t0, sig, counters, tickHist,
                   startP, calls, sleepHist, dl, lastQ>>

\* printer_state = self.printer.state()
GetPrinterState ==
    /\ pc = "state"
    /\ \/ \E f \in BOOLEAN :
            /\ pstate' = Printer_state(pstate, f)
            /\ printer_state' = pstate'
            /\ found' = f
            /\ pc' = "update"
            /\ UNCHANGED <<ra, outcome, failAt>>
       \/ /\ Uncaught("find")
          /\ UNCHANGED <<pstate, printer_state, found>>
    /\ UNCHANGED <<tstate, alarm, qDisabled, job_count, trace, t0, sig, counters,
                   ticks, preT, preP, preQ, carry, runHist, calls,
                   sleepHist, dl, lastQ>>

\* ---- App._update ----

\* mutant: the first test of _update is job_count > 1
Update_m ==
    /\ pc = "update"
    /\ t0' = tstate
    /\ sig' = FALSE
    /\ IF job_count > 1
       THEN pc' = "unset_test" /\ ra' = "l88"
       ELSE pc' = "l95" /\ ra' = "none"
    /\ UNCHANGED <<prog, locals, trace, outcome, failAt, counters, tickHist,
                   runHist, calls, sleepHist, dl, lastQ>>

\* entry of _update and its first test: if job_count > 0
Update ==
    /\ pc = "update"
    /\ t0' = tstate
    /\ sig' = FALSE
    /\ IF job_count > 0
       THEN pc' = "unset_test" /\ ra' = "l88"
       ELSE pc' = "l95" /\ ra' = "none"
    /\ UNCHANGED <<prog, locals, trace, outcome, failAt, counters, tickHist,
                   runHist, calls, sleepHist, dl, lastQ>>

\* after self.timer.unset(): if printer_state == Printer.OFF / elif ... READY
AfterUnset ==
    /\ pc = "l88"
    /\ IF printer_state = OFF
       THEN pc' = "on" /\ UNCHANGED <<ra, outcome>>
       ELSE IF printer_state = READY
            THEN pc' = "queue_disabled" /\ UNCHANGED <<ra, outcome>>
            ELSE Return("done")
    /\ UNCHANGED <<prog, locals, trace, t0, sig, failAt, counters, tickHist,
                   runHist, calls, sleepHist, dl, lastQ>>

\* self.printer.on(): the pulse (pin.blink) may raise
PrinterOn ==
    /\ pc = "on"
    /\ LET r == Printer_on(pstate) IN
       IF r.pulses = 0
       THEN /\ pstate' = r.state
            /\ Return("done")
            /\ UNCHANGED <<trace, onPulses, failAt>>
       ELSE \/ /\ pstate' = r.state
               /\ onPulses' = onPulses + r.pulses
               /\ trace' = Append(trace, "pulse_on")
               /\ Return("done")
               /\ UNCHANGED failAt
            \/ /\ Caught("on")
               /\ UNCHANGED <<pstate, trace, onPulses>>
            \/ /\ Uncaught("on")
               /\ UNCHANGED <<pstate, trace, onPulses>>
    /\ UNCHANGED <<tstate, alarm, qDisabled, locals, t0, sig, offPulses, arms,
                   tickHist, runHist, calls, sleepHist, dl, lastQ>>

\* mutant: the test of the queue state is inverted
QueueDisabled_m ==
    /\ pc = "queue_disabled"
    /\ \/ /\ IF ~qDisabled
             THEN /\ pc' = "enable"
                  /\ trace' = Append(trace, "queue_is_disabled")
                  /\ UNCHANGED <<ra, outcome>>
             ELSE /\ Return("done")
                  /\ trace' = Append(trace, "queue_is_enabled")
          /\ UNCHANGED failAt
       \/ /\ Caught("queue_disabled")
          /\ UNCHANGED trace
    /\ UNCHANGED <<prog, locals, t0, sig, counters, tickHist, runHist, calls,
                   sleepHist, dl, lastQ>>

\* if self._queue_disabled(): getPrinterAttributes may raise
QueueDisabled ==
    /\ pc = "queue_disabled"
    /\ \/ /\ IF qDisabled
             THEN /\ pc' = "enable"
                  /\ trace' = Append(trace, "queue_is_disabled")
                  /\ UNCHANGED <<ra, outcome>>
             ELSE /\ Return("done")
                  /\ trace' = Append(trace, "queue_is_enabled")
          /\ UNCHANGED failAt
       \/ /\ Caught("queue_disabled")
          /\ UNCHANGED trace
    /\ UNCHANGED <<prog, locals, t0, sig, counters, tickHist, runHist, calls,
                   sleepHist, dl, lastQ>>

\* self.cupsc.enablePrinter(...)
EnableQueue ==
    /\ pc = "enable"
    /\ \/ /\ qDisabled' = FALSE
          /\ trace' = Append(trace, "enable")
          /\ Return("done")
          /\ UNCHANGED failAt
       \/ /\ Caught("enable")
          /\ trace' = Append(trace, "enable_failed")
          /\ UNCHANGED qDisabled
    /\ lastQ' = "enable"
    /\ UNCHANGED <<pstate, tstate, alarm, locals, t0, sig, counters, tickHist,
                   runHist, calls, sleepHist, dl>>

\* mutant: the timer is armed whatever the printer state
TestUnset_m ==
    /\ pc = "l95"
    /\ pc' = IF tstate = UNSET THEN "set_alarm" ELSE "l98"
    /\ UNCHANGED <<ra, prog, locals, trace, t0, sig, outcome, failAt, counters,
                   tickHist, runHist, calls, sleepHist, dl, lastQ>>

\* elif self.timer.state == Timer.UNSET and printer_state != Printer.OFF
TestUnset ==
    /\ pc = "l95"
    /\ pc' = IF tstate = UNSET /\ printer_state # OFF THEN "set_alarm" ELSE "l98"
    /\ UNCHANGED <<ra, prog, locals, trace, t0, sig, outcome, failAt, counters,
                   tickHist, runHist, calls, sleepHist, dl, lastQ>>

\* mutant: the FIRED branch powers off without disabling the queue
TestFired_m ==
    /\ pc = "l98"
    /\ IF tstate = FIRED
       THEN pc' = "unset_test" /\ ra' = "off" /\ UNCHANGED outcome
       ELSE Return("done")
    /\ UNCHANGED <<prog, locals, trace, t0, sig, failAt, counters, tickHist,
                   runHist, calls, sleepHist, dl, lastQ>>

\* elif self.timer.state == Timer.FIRED
TestFired ==
    /\ pc = "l98"
    /\ IF tstate = FIRED
       THEN pc' = "unset_test" /\ ra' = "disable" /\ UNCHANGED outcome
       ELSE Return("done")
    /\ UNCHANGED <<prog, locals, trace, t0, sig, failAt, counters, tickHist,
                   runHist, calls, sleepHist, dl, lastQ>>

\* mutant: an error of disablePrinter is swallowed and the printer goes off
DisableQueue_m ==
    /\ pc = "disable"
    /\ \/ /\ qDisabled' = TRUE
          /\ trace' = Append(trace, "disable")
       \/ /\ trace' = Append(trace, "disable_failed")
          /\ UNCHANGED qDisabled
    /\ pc' = "off"
    /\ lastQ' = "disable"
    /\ UNCHANGED <<ra, outcome, failAt>>
    /\ UNCHANGED <<pstate, tstate, alarm, locals, t0, sig, counters, tickHist,
                   runHist, calls, sleepHist, dl>>

\* self.cupsc.disablePrinter(...)
DisableQueue ==
    /\ pc = "disable"
    /\ \/ /\ qDisabled' = TRUE
          /\ trace' = Append(trace, "disable")
          /\ pc' = "off"
          /\ UNCHANGED <<ra, outcome, failAt>>
       \/ /\ Caught("disable")
          /\ trace' = Append(trace, "disable_failed")
          /\ UNCHANGED qDisabled
    /\ lastQ' = "disable"
    /\ UNCHANGED <<pstate, tstate, alarm, locals, t0, sig, counters, tickHist,
                   runHist, calls, sleepHist, dl>>

\* self.printer.off(): the pulse (pin.blink) may raise
PrinterOff ==
    /\ pc = "off"
    /\ LET r == Printer_off(pstate) IN
       IF r.pulses = 0
       THEN /\ pstate' = r.state
            /\ Return("done")
            /\ UNCHANGED <<trace, offPulses, failAt>>
       ELSE \/ /\ pstate' = r.state
               /\ offPulses' = offPulses + r.pulses
               /\ trace' = Append(trace, "pulse_off")
               /\ Return("done")
               /\ UNCHANGED failAt
            \/ /\ Caught("off")
               /\ UNCHANGED <<pstate, trace, offPulses>>
            \/ /\ Uncaught("off")
               /\ UNCHANGED <<pstate, trace, offPulses>>
    /\ UNCHANGED <<tstate, alarm, qDisabled, locals, t0, sig, onPulses, arms,
                   tickHist, runHist, calls, sleepHist, dl, lastQ>>

\* ---- Timer ----

\* mutant: signal.alarm is not called again while a deadline is pending
SetAlarm_m ==
    /\ pc = "set_alarm"
    /\ alarm' = TRUE
    /\ dl' = Append(dl, IF alarm THEN "dropped" ELSE "pending")
    /\ pc' = "set_store"
    /\ UNCHANGED <<ra, pstate, tstate, qDisabled, locals, trace, t0, sig,
                   outcome, failAt, counters, tickHist, runHist, calls,
                   sleepHist, lastQ>>

\* Timer.set, first statement: signal.alarm(self._timeout); the new deadline
\* takes the place of a pending one
SetAlarm ==
    /\ pc = "set_alarm"
    /\ alarm' = TRUE
    /\ dl' = Append(Settle("replaced"), "pending")
    /\ pc' = "set_store"
    /\ UNCHANGED <<ra, pstate, tstate, qDisabled, locals, trace, t0, sig,
                   outcome, failAt, counters, tickHist, runHist, calls,
                   sleepHist, lastQ>>

\* Timer.set, second statement: self.state = Timer.SET
SetStore ==
    /\ pc = "set_store"
    /\ tstate' = SET
    /\ arms' = arms + 1
    /\ trace' = Append(trace, "set")
    /\ posSinceArm' = FALSE
    /\ Return("done")
    /\ UNCHANGED <<pstate, alarm, qDisabled, locals, t0, sig, failAt,
                   onPulses, offPulses, tickHist, startP, allPos, calls,
                   sleepHist, dl, lastQ>>

\* Timer.unset: if self.state == Timer.SET
UnsetTest ==
    /\ pc = "unset_test"
    /\ pc' = IF tstate = SET THEN "unset_alarm" ELSE "unset_store"
    /\ UNCHANGED <<ra, prog, locals, trace, t0, sig, outcome, failAt, counters,
                   tickHist, runHist, calls, sleepHist, dl, lastQ>>

\* mutant: Timer.unset leaves the pending deadline in place
UnsetAlarm_m ==
    /\ pc = "unset_alarm"
    /\ pc' = "unset_store"
    /\ UNCHANGED <<ra, prog, locals, trace, t0, sig, outcome, failAt, counters,
                   tickHist, runHist, calls, sleepHist, dl, lastQ>>

\* Timer.unset: signal.alarm(0)
UnsetAlarm ==
    /\ pc = "unset_alarm"
    /\ alarm' = FALSE
    /\ dl' = Settle("cancelled")
    /\ pc' = "unset_store"
    /\ UNCHANGED <<ra, pstate, tstate, qDisabled, locals, trace, t0, sig,
                   outcome, failAt, counters, tickHist, runHist, calls,
                   sleepHist, lastQ>>

\* Timer.unset: self.state = Timer.UNSET, and return to the caller
UnsetStore ==
    /\ pc = "unset_store"
    /\ tstate' = UNSET
    /\ trace' = Append(trace, "unset")
    /\ pc' = ra
    /\ ra' = "none"
    /\ UNCHANGED <<pstate, alarm, qDisabled, locals, t0, sig, outcome, failAt,
                   counters, tickHist, runHist, calls, sleepHist, dl, lastQ>>

\* the SIGALRM handler: self.state = Timer.FIRED; the deadline is consumed
alarm_handler ==
    /\ alarm
    /\ pc # "dead"
    /\ alarm' = FALSE
    /\ dl' = Settle("expired")
    /\ tstate' = FIRED
    /\ sig' = TRUE
    /\ UNCHANGED <<pc, ra, pstate, qDisabled, locals, trace, t0, outcome,
                   failAt, counters, tickHist, runHist, calls, sleepHist, lastQ>>

\* ---- the except clauses of run: self.log(...) then self.notify(...) ----

\* App.log: open() or print() on the log file may raise (not caught)
Log ==
    /\ pc = "log"
    /\ \/ /\ trace' = Append(trace, "log")
          /\ pc' = "notify"
          /\ UNCHANGED <<ra, outcome, failAt>>
       \/ /\ Uncaught("log")
          /\ UNCHANGED trace
    /\ UNCHANGED <<prog, locals, t0, sig, counters, tickHist, runHist, calls,
                   sleepHist, dl, lastQ>>

\* App.notify: requests.get may raise (not caught)
Notify ==
    /\ pc = "notify"
    /\ \/ /\ trace' = Append(trace, "notify")
          /\ Return("failed")
          /\ UNCHANGED failAt
       \/ /\ Uncaught("notify")
          /\ UNCHANGED trace
    /\ UNCHANGED <<prog, locals, t0, sig, counters, tickHist, runHist, calls,
                   sleepHist, dl, lastQ>>

Next ==
    \/ Sleep \/ CheckService \/ GetJobs \/ GetPrinterState
    \/ Update \/ AfterUnset \/ PrinterOn \/ QueueDisabled \/ EnableQueue
    \/ TestUnset \/ TestFired \/ DisableQueue \/ PrinterOff
    \/ SetAlarm \/ SetStore \/ UnsetTest \/ UnsetAlarm \/ UnsetStore
    \/ alarm_handler \/ Log \/ Notify

Spec == Init /\ [][Next]_vars


\* ---- _update applied to every (Timer.state, Printer._state) ----
\* The loop started with the Timer and Printer objects in any of their
\* states; a deadline is pending exactly when the timer is SET.
InitUpdate ==
    /\ pc = "sleep" /\ ra = "none"
    /\ pstate \in PrinterStates
    /\ tstate \in TimerStates
    /\ alarm = (tstate = SET)
    /\ qDisabled \in BOOLEAN
    /\ job_count = 0 /\ printer_state = pstate
    /\ preT = tstate /\ preP = pstate /\ preQ = qDisabled
    /\ t0 = tstate /\ startP = pstate
    /\ InitHist

SpecUpdate == InitUpdate /\ [][Next]_vars

\* ---- a Printer object alone, its methods called in any order ----
InitPrinter ==
    /\ pc = "printer" /\ ra = "none"
    /\ pstate \in PrinterStates
    /\ tstate = UNSET /\ alarm = FALSE
    /\ qDisabled = FALSE
    /\ job_count = 0 /\ printer_state = pstate
    /\ preT = tstate /\ preP = pstate /\ preQ = qDisabled
    /\ t0 = tstate /\ startP = pstate
    /\ InitHist

Called(cmd, before, after, pulses) ==
    /\ pc = "printer"
    /\ Len(calls) < MaxCalls
    /\ pstate = before
    /\ pstate' = after
    /\ calls' = Append(calls, [cmd |-> cmd, before |-> before, after |-> after,
                               pulses |-> pulses])
    /\ UNCHANGED <<pc, ra, tstate, alarm, qDisabled, locals, ticks, trace, preT,
                   preP, preQ, t0, sig, found, outcome, failAt, counters,
                   runHist, carry, sleepHist, dl, lastQ>>

CallOn == Called("on", pstate, Printer_on(pstate).state, Printer_on(pstate).pulses)

CallOff == Called("off", pstate, Printer_off(pstate).state, Printer_off(pstate).pulses)

CallState == \E f \in BOOLEAN :
    Called(IF f THEN "state_found" ELSE "state_none", pstate, Printer_state(pstate, f), 0)

NextPrinter == CallOn \/ CallOff \/ CallState

SpecPrinter == InitPrinter /\ [][NextPrinter]_vars

\* ---- a Timer object alone: set and unset called in any order, the
\* expiry signal arriving between any two statements ----
InitTimer ==
    /\ pc = "sleep" /\ ra = "none"
    /\ pstate = OFF
    /\ tstate = UNSET /\ alarm = FALSE
    /\ qDisabled = FALSE
    /\ job_count = 0 /\ printer_state = pstate
    /\ preT = tstate /\ preP = pstate /\ preQ = qDisabled
    /\ t0 = tstate /\ startP = pstate
    /\ InitHist

\* a call of self.timer.set()
CallSet ==
    /\ pc = "sleep"
    /\ Len(trace) < MaxCalls
    /\ pc' = "set_alarm"
    /\ UNCHANGED <<ra, prog, locals, trace, t0, sig, outcome, failAt, counters,
                   tickHist, runHist, calls, sleepHist, dl, lastQ>>

\* a call of self.timer.unset()
CallUnset ==
    /\ pc = "sleep"
    /\ Len(trace) < MaxCalls
    /\ pc' = "unset_test"
    /\ ra' = "sleep"
    /\ UNCHANGED <<prog, locals, trace, t0, sig, outcome, failAt, counters,
                   tickHist, runHist, calls, sleepHist, dl, lastQ>>

NextTimer ==
    \/ CallSet \/ SetAlarm \/ SetStore
    \/ CallUnset \/ UnsetTest \/ UnsetAlarm \/ UnsetStore
    \/ alarm_handler

SpecTimer == InitTimer /\ [][NextTimer]_vars

\* ---- the loop running for ever on an idle queue ----
\* From an iteration boundary with the printer powered, every iteration finds
\* cups.service active and no jobs, and no call raises.  The loop never
\* stops by itself (WF on its steps) and a pending alarm is delivered by the
\* OS (WF on alarm_handler); exploration ends with the first power-off pulse.
InitIdle ==
    /\ pc = "sleep" /\ ra = "none"
    /\ pstate \in {ON, READY}
    /\ tstate \in TimerStates
    /\ alarm = (tstate = SET)
    /\ qDisabled \in (IF pstate = ON THEN {TRUE} ELSE BOOLEAN)
    /\ job_count = 0 /\ printer_state = pstate
    /\ preT = tstate /\ preP = pstate /\ preQ = qDisabled
    /\ t0 = tstate /\ startP = pstate
    /\ InitHist

\* the next iteration, until the first power-off pulse was given
IdleSleep == offPulses = 0 /\ SleepOn

\* cups.service is active
ServiceActive == CheckService /\ pc' = "getJobs"

\* getJobs returns an empty list
NoJobs == GetJobs /\ pc' = "state" /\ job_count' = 0

\* Printer.state returns (the device found or not)
ProbeReturns == GetPrinterState /\ pc' = "update"

\* disablePrinter returns
DisableReturns == DisableQueue /\ pc' = "off"

\* Printer.off returns
OffReturns == PrinterOff /\ pc' = "sleep"

IdleLoop ==
    \/ IdleSleep \/ ServiceActive \/ NoJobs \/ ProbeReturns
    \/ Update \/ TestUnset \/ TestFired \/ SetAlarm \/ SetStore
    \/ UnsetTest \/ UnsetStore \/ DisableReturns \/ OffReturns

NextIdle == IdleLoop \/ alarm_handler

SpecIdle ==
    InitIdle /\ [][NextIdle]_vars /\ WF_vars(IdleLoop) /\ WF_vars(alarm_handler)

\* ---- the loop running for ever on a queue that holds jobs ----
\* From construction on, every iteration finds cups.service active and
\* job_count > 0, and no call raises.  The loop never stops by itself (WF on
\* its steps); nothing is assumed about what usb.core.find returns.

\* getJobs returns a list that is not empty
SomeJobs == GetJobs /\ pc' = "state" /\ job_count' > 0

\* Printer.on returns
OnReturns == PrinterOn /\ pc' = "sleep"

\* getPrinterAttributes returns
QueryReturns == QueueDisabled /\ pc' # "log"

\* enablePrinter returns
EnableReturns == EnableQueue /\ pc' = "sleep"

NextBusy ==
    \/ SleepOn \/ ServiceActive \/ SomeJobs \/ ProbeReturns
    \/ Update \/ UnsetTest \/ UnsetStore \/ AfterUnset
    \/ OnReturns \/ QueryReturns \/ EnableReturns

SpecBusy == Init /\ [][NextBusy]_vars /\ WF_vars(NextBusy)

\* ---- properties ----

TypeOK ==
    /\ pstate \in PrinterStates /\ tstate \in TimerStates
    /\ alarm \in BOOLEAN /\ qDisabled \in BOOLEAN
    /\ job_count \in 0..MaxJobs /\ printer_state \in PrinterStates
    /\ ticks \in 0..MaxTicks

Events == {trace[i] : i \in DOMAIN trace}

\* the iteration has just finished and _update returned normally
Done == pc = "sleep" /\ ticks > 0 /\ outcome = "done"

\* the iteration has just finished through an except clause of run
Failed == pc = "sleep" /\ ticks > 0 /\ outcome = "failed"

\* The decision table of _update: commands issued, Timer.state and
\* Printer._state after the call, for job count j, timer state t, printer
\* state p and queue state q (TRUE = disabled) at the call.
DecisionTable(j, t, p, q) ==
    IF j > 0 THEN
        [cmds |-> <<"unset">> \o
                  (IF p = OFF THEN <<"pulse_on">>
                   ELSE IF p = READY
                        THEN (IF q THEN <<"queue_is_disabled", "enable">>
                                   ELSE <<"queue_is_enabled">>)
                        ELSE <<>>),
         timer |-> UNSET,
         printer |-> IF p = OFF THEN ON ELSE p,
         queue |-> IF p = READY THEN FALSE ELSE q]
    ELSE IF t = FIRED THEN
        [cmds |-> <<"unset", "disable">> \o
                  (IF p # OFF THEN <<"pulse_off">> ELSE <<>>),
         timer |-> UNSET, printer |-> OFF, queue |-> TRUE]
    ELSE IF t = UNSET /\ p \in {ON, READY} THEN
        [cmds |-> <<"set">>, timer |-> SET, printer |-> p, queue |-> q]
    ELSE
        [cmds |-> <<>>, timer |-> t, printer |-> p, queue |-> q]

\* C1: a call of _update that returns normally, with no expiry signal
\* delivered during the call, issues exactly the commands and leaves exactly
\* the timer, printer and queue state that the decision table gives for
\* (job_count, Timer.state at entry, printer_state, queue state), for each
\* of the 18 combinations; when the expiry signal is delivered during the
\* call, the commands and the printer and queue state are those the table
\* gives for the timer state at entry or for FIRED.
C1_DecisionTable ==
    /\ (Done /\ ~sig) =>
          [cmds |-> trace, timer |-> tstate, printer |-> pstate, queue |-> qDisabled]
              = DecisionTable(job_count, t0, printer_state, preQ)
    /\ (Done /\ sig) =>
          \E t \in {t0, FIRED} :
              LET d == DecisionTable(job_count, t, printer_state, preQ) IN
              trace = d.cmds /\ pstate = d.printer /\ qDisabled = d.queue

\* a combination the running program never meets (timer FIRED, printer OFF)
\* has been decided: jobs pending clear the timer and pulse the printer on
C1_Witness ==
    /\ Done /\ ~sig
    /\ job_count > 0 /\ t0 = FIRED /\ printer_state = OFF
    /\ trace = <<"unset", "pulse_on">> /\ pstate = ON /\ tstate = UNSET

\* C2: an iteration whose getJobs raises assumes no job count: it issues no
\* pulse and no queue command and never touches the timer (only log and
\* notify happen); when it ends, printer, timer and queue state are those
\* from before it (the timer unless the expiry signal arrived meanwhile); a
\* timer that was FIRED stays FIRED, and the next iteration that returns
\* normally with job_count = 0 takes the power-off path.
C2_FailedQueryKeepsState ==
    /\ failAt = "getJobs" =>
          /\ Events \subseteq {"log", "notify"}
          /\ pstate = preP /\ qDisabled = preQ
          /\ (preT = FIRED => tstate = FIRED)
          /\ (~sig => tstate = preT)
    /\ (Failed /\ failAt = "getJobs") => trace = <<"log", "notify">>
    /\ (carry /\ Done /\ job_count = 0) =>
          /\ preT = FIRED
          /\ trace = <<"unset", "disable">> \o
                     (IF printer_state # OFF THEN <<"pulse_off">> ELSE <<>>)
          /\ pstate = OFF /\ tstate = UNSET /\ qDisabled

\* getJobs raised with the timer FIRED, and the following iteration saw no
\* jobs and powered the printer off
C2_Witness ==
    /\ carry /\ Done /\ job_count = 0
    /\ "pulse_off" \in Events

\* C3 (as claimed): when a call inside _update raises after the job count
\* was obtained (disablePrinter, getPrinterAttributes, enablePrinter), the
\* timer and printer state after the iteration are those at the entry of
\* _update.
C3_Claimed ==
    (Failed /\ failAt \in {"disable", "queue_disabled", "enable"} /\ ~sig) =>
        (tstate = t0 /\ pstate = printer_state)

\* C4 (as claimed): when the pulse raises in Printer.on or Printer.off, the
\* timer and printer state are left as they were when _update was entered.
C4_Claimed ==
    (failAt \in {"on", "off"} /\ ~sig) =>
        (tstate = t0 /\ pstate = printer_state)

\* C5: every power-off pulse comes, in the same iteration, directly after a
\* completed disablePrinter that itself follows the clearing of the timer;
\* an iteration whose disablePrinter raised gives no power-off pulse.
C5_DisableBeforeOff ==
    /\ \A i \in DOMAIN trace :
          trace[i] = "pulse_off" =>
              /\ i >= 3
              /\ trace[i-1] = "disable"
              /\ trace[i-2] = "unset"
              /\ qDisabled
    /\ "disable_failed" \in Events => "pulse_off" \notin Events
    /\ pc = "off" => (trace # <<>> /\ trace[Len(trace)] = "disable")

\* a power-off pulse has been given
C5_Witness ==
    /\ Done
    /\ "pulse_off" \in Events
    /\ pstate = OFF

Pulses == onPulses + offPulses

\* C6 (as claimed): a step that changes Printer._state between OFF and ON
\* gives exactly one pulse, and a step that changes it to or from READY
\* gives none.
C6_Claimed ==
    [][ /\ ((pstate = OFF /\ pstate' = ON) \/ (pstate = ON /\ pstate' = OFF))
            => Pulses' = Pulses + 1
        /\ (pstate' # pstate /\ (pstate = READY \/ pstate' = READY))
            => Pulses' = Pulses ]_vars

\* C6 (amended): a change of Printer._state from OFF to ON, from ON to OFF
\* or from READY to OFF gives exactly one pulse; a change to READY gives
\* none; READY never changes to ON; no pulse is given without such a change.
C6_PulsePerPowerChange ==
    [][ /\ ((pstate = OFF /\ pstate' = ON) \/ (pstate = ON /\ pstate' = OFF)
            \/ (pstate = READY /\ pstate' = OFF))
            => Pulses' = Pulses + 1
        /\ (pstate' # pstate /\ pstate' = READY) => Pulses' = Pulses
        /\ ~(pstate = READY /\ pstate' = ON)
        /\ pstate' = pstate => Pulses' = Pulses ]_vars

\* Printer.off has taken the printer from READY to OFF with a pulse
C6_Witness ==
    /\ Done
    /\ printer_state = READY /\ pstate = OFF
    /\ "pulse_off" \in Events

\* C7: Printer.on on a printer that is ON, and Printer.off on one that is
\* OFF, give no pulse and leave the state; two calls in a row of the same
\* command give at most one pulse together.
C7_Idempotent ==
    /\ \A i \in DOMAIN calls :
          /\ (calls[i].cmd = "on" /\ calls[i].before = ON) =>
                 (calls[i].pulses = 0 /\ calls[i].after = ON)
          /\ (calls[i].cmd = "off" /\ calls[i].before = OFF) =>
                 (calls[i].pulses = 0 /\ calls[i].after = OFF)
    /\ \A i \in DOMAIN calls :
          (i > 1 /\ calls[i].cmd \in {"on", "off"} /\ calls[i-1].cmd = calls[i].cmd) =>
              calls[i-1].pulses + calls[i].pulses <= 1

\* on was called twice in a row from OFF, then off twice in a row
C7_Witness ==
    /\ Len(calls) = 4
    /\ calls[1].cmd = "on" /\ calls[1].before = OFF /\ calls[1].pulses = 1
    /\ calls[2].cmd = "on" /\ calls[2].before = ON
    /\ calls[3].cmd = "off" /\ calls[3].pulses = 1
    /\ calls[4].cmd = "off" /\ calls[4].before = OFF

\* C8: an iteration in which usb.core.find detected the printer gives no
\* power-on pulse; if Printer._state was OFF before it, job_count > 0 and
\* the queue was found disabled, it issues enablePrinter (the queue is
\* enabled when the call returns) and gives no pulse at all.
C8_PresentNoPulse ==
    /\ found => "pulse_on" \notin Events
    /\ (found /\ preP = OFF /\ job_count > 0 /\ "queue_is_disabled" \in Events
          /\ pc # "enable") =>
          /\ "enable" \in Events \/ "enable_failed" \in Events
          /\ {"pulse_on", "pulse_off"} \cap Events = {}
    /\ (Done /\ found /\ preP = OFF /\ job_count > 0 /\ preQ) =>
          (trace = <<"unset", "queue_is_disabled", "enable">> /\ ~qDisabled)

\* the printer was detected while believed OFF, jobs were pending and the
\* disabled queue was enabled
C8_Witness ==
    /\ Done /\ found /\ preP = OFF /\ job_count > 0 /\ preQ
    /\ "enable" \in Events
    /\ pstate = READY

\* no call has raised so far
NoFault == ~faults /\ failAt = "none"

\* usb.core.find detected the printer in the first iteration
FirstFound == IF ticks <= 1 THEN found ELSE firstFound

\* C9 (as claimed): started with the printer OFF and the timer UNSET, while
\* every iteration observes job_count > 0 (and no call raises), after each
\* iteration exactly one power-on pulse has been given in total, the timer
\* was never armed, no power-off pulse was given and the timer is UNSET.
C9_Claimed ==
    (startP = OFF /\ allPos /\ NoFault /\ Done) =>
        (onPulses = 1 /\ arms = 0 /\ offPulses = 0 /\ tstate = UNSET)

\* C9 (amended): started with the printer OFF and the timer UNSET, while
\* every iteration observes job_count > 0, at most one power-on pulse is
\* given in total, the timer is never armed and stays UNSET with no deadline
\* pending, and no power-off pulse is given; when no call raises, after each
\* iteration the number of power-on pulses is exactly one if the first
\* iteration did not detect the printer and zero if it did.
C9_SteadyJobs ==
    (startP = OFF /\ allPos) =>
        /\ onPulses <= 1 /\ arms = 0 /\ offPulses = 0
        /\ tstate = UNSET /\ ~alarm
        /\ (NoFault /\ Done) =>
              /\ onPulses = (IF FirstFound THEN 0 ELSE 1)
              /\ pstate \in {ON, READY}
              /\ pstate = ON => onPulses = 1

\* three iterations with jobs pending: one pulse in the first, and the
\* printer detected afterwards
C9_Witness ==
    /\ startP = OFF /\ allPos /\ NoFault /\ Done
    /\ ticks >= 3
    /\ onPulses = 1 /\ pstate = READY

\* C10: Timer.set is called only in an iteration that observed
\* job_count = 0 with printer_state not OFF; a power-off pulse is given only
\* in an iteration that observed job_count = 0 and found the timer FIRED;
\* and no iteration since the last Timer.set observed job_count > 0 when the
\* power-off pulse is given.
C10_ArmAndOffOnlyWhenIdle ==
    /\ (pc = "set_store" \/ "set" \in Events) =>
          (job_count = 0 /\ printer_state # OFF)
    /\ "pulse_off" \in Events =>
          /\ job_count = 0
          /\ t0 = FIRED \/ (t0 = SET /\ sig)
          /\ ~posSinceArm
          /\ arms > 0

\* the timer was armed, jobs arrived and cleared it, it was armed again and
\* that second window ended in the power-off pulse
C10_Witness ==
    /\ Done
    /\ "pulse_off" \in Events
    /\ arms >= 2
    /\ onPulses + offPulses >= 1

\* the job-count query of the current / last iteration raised a handled error
GetJobsRaised ==
    \/ failAt = "getJobs"
    \/ failAt \in {"log", "notify"} /\ "unset" \notin Events

\* C12 (as claimed): when App.log or App.notify raises while an error is
\* being reported, the failure is swallowed and the loop goes on to its next
\* iteration: the process does not end.
C12_Claimed ==
    failAt \in {"log", "notify"} => pc # "dead"

\* C13 (as claimed): every iteration whose getJobs raised a handled error
\* has, when its handling is over, made exactly one log attempt and then
\* exactly one notification attempt.
C13_Claimed ==
    (GetJobsRaised /\ pc \in {"sleep", "dead"}) =>
        \/ trace = <<"log", "notify">>
        \/ trace = <<"log">> /\ failAt = "notify"

\* the iteration has just finished because cups.service was not active
Skipped == pc = "sleep" /\ ticks > 0 /\ outcome = "skipped"

C17_ReadyOnlyFromProbe ==
    \A i \in DOMAIN calls :
        /\ calls[i].cmd = "on" => calls[i].after \in {ON, calls[i].before}
        /\ calls[i].cmd = "off" => calls[i].after = OFF
        /\ (calls[i].after = READY /\ calls[i].before # READY) =>
               calls[i].cmd = "state_found"

\* the probe made an OFF printer READY, on left it READY, off made it OFF
\* and on made it ON
C17_Witness ==
    /\ Len(calls) = 4
    /\ calls[1].cmd = "state_found" /\ calls[1].before = OFF /\ calls[1].after = READY
    /\ calls[2].cmd = "on" /\ calls[2].after = READY
    /\ calls[3].cmd = "off" /\ calls[3].after = OFF
    /\ calls[4].cmd = "on" /\ calls[4].after = ON

\* C20 (as claimed): after Printer.state has been called in an iteration,
\* Printer._state is READY only if that call found the device; so when it
\* did not, pending jobs lead to a power-on pulse.
C20_Claimed ==
    /\ (pc = "update" /\ ~found) => pstate # READY
    /\ (Done /\ ~found /\ job_count > 0 /\ preP = READY) => "pulse_on" \in Events

\* C18: whenever Printer._state is OFF (after construction and at every
\* later point, so at every iteration boundary), the last queue command the
\* program issued is disablePrinter and the queue is disabled; and
\* enablePrinter is issued only in an iteration whose printer_state is READY.
C18_QueueFollowsPower ==
    /\ pstate = OFF => (lastQ = "disable" /\ qDisabled)
    /\ (pc = "enable" \/ "enable" \in Events \/ "enable_failed" \in Events) =>
          (printer_state = READY /\ pstate = READY)

\* a printer that was READY at startup (queue left alone) has been powered
\* off after the queue was disabled
C18_Witness ==
    /\ pc = "sleep" /\ pstate = OFF
    /\ startP = READY
    /\ offPulses >= 1
    /\ lastQ = "disable"

\* the deadlines that are pending
Pending == {i \in DOMAIN dl : dl[i] = "pending"}

\* C15: at most one deadline is pending at any time, and it is the one of
\* the last signal.alarm(timeout) call: every call schedules its deadline
\* and replaces a pending one; after Timer.set was called twice with no
\* unset in between exactly one deadline is pending (unless it has expired
\* already); a replaced deadline stays replaced, it never expires.
C15_SingleDeadline ==
    /\ [](/\ Cardinality(Pending) <= 1
          /\ alarm <=> Pending # {}
          /\ \A i \in Pending : i = Len(dl)
          /\ \A i \in DOMAIN dl :
                dl[i] \in {"pending", "replaced", "cancelled", "expired"}
          /\ (pc = "sleep" /\ Len(trace) >= 2
                /\ trace[Len(trace)] = "set" /\ trace[Len(trace) - 1] = "set"
                /\ dl[Len(dl)] # "expired") =>
                (Pending = {Len(dl)} /\ tstate = SET))
    /\ [][\A i \in DOMAIN dl : dl[i] = "replaced" => dl'[i] = "replaced"]_vars

\* Timer.set was called twice in a row while the first deadline was pending
C15_Witness ==
    /\ pc = "sleep"
    /\ trace = <<"set", "set">>
    /\ dl = <<"replaced", "pending">>
    /\ tstate = SET /\ alarm

\* C16 (as claimed): whatever statement of the loop the expiry signal
\* interrupts, Timer.state stays FIRED from the expiry until Timer.unset
\* stores UNSET; and when Timer.unset returns, the state is UNSET and no
\* deadline is pending.
C16_Claimed ==
    [][ /\ (tstate = FIRED /\ tstate' # FIRED) => pc = "unset_store"
        /\ pc = "unset_store" => (tstate' = UNSET /\ ~alarm') ]_vars

\* C11 (as claimed): when from some iteration on every iteration succeeds
\* with job_count = 0 and the printer is powered, eventually an iteration
\* clears the fired timer, disables the queue and gives the power-off pulse,
\* leaving the printer OFF and the timer UNSET.
C11_Claimed ==
    <>(/\ pc = "sleep" /\ pstate = OFF /\ tstate = UNSET /\ qDisabled
       /\ trace = <<"unset", "disable", "pulse_off">>)

\* C19 (as claimed): with jobs pending in every iteration, a disabled queue
\* of a powered printer (READY, or ON after the program's own pulse) is
\* eventually enabled, whatever the probe reports.
C19_Claimed ==
    (qDisabled /\ pstate \in {ON, READY}) ~> ~qDisabled

\* C19 (amended): with jobs pending in every iteration, a disabled queue is
\* eventually enabled once Printer._state is READY; while the state is ON
\* (powered by the program, not yet detected) the queue stays disabled and
\* no enablePrinter is issued.
C19_EnableOncePresent ==
    /\ (qDisabled /\ pstate = READY) ~> ~qDisabled
    /\ [](pstate = ON =>
            (qDisabled /\ "enable" \notin Events /\ pc # "enable"))

\* the printer was powered on by the program with the queue disabled, was
\* detected in a later iteration, and that iteration enabled the queue
C19_Witness ==
    /\ Done
    /\ onPulses = 1
    /\ preP = ON /\ printer_state = READY
    /\ preQ /\ ~qDisabled
    /\ "enable" \in Events
====
